---- MODULE Spec2Model ----
(***************************************************************************)
(* Travel-time client of the escape-room calendar maker                    *)
(* (src/src/travel.py): NaverMapsClient.geocode, get_travel_time,          *)
(* get_travel_time_matrix and _estimate_travel_time, with the two          *)
(* functools.lru_cache memo tables that decorate geocode and               *)
(* get_travel_time; and the schedule predicates and balance score of       *)
(* src/src/scheduler.py (ScheduleValidator, ScheduleAnalyzer).             *)
(* The model classes of src/src/models.py, the CSV parsers of              *)
(* src/src/parser.py, ClaudeScheduler.generate_scenarios and               *)
(* ScenarioDisplay.format_scenario_summary of src/src/claude_agent.py, and *)
(* the generation flag of src/main.py follow.                              *)
(*                                                                         *)
(* Encoding of Python values:                                              *)
(*   - a str is a sequence of characters; each Hangul syllable (one code   *)
(*     point) is written as its romanisation ("gang" is U+AC15).  The      *)
(*     state holds short address names; ADDRESS_TEXT gives their text.     *)
(*   - Optional[T]: None is <<>>, a value v is <<v>>.                      *)
(*   - a call's outcome is [exc |-> raised?, val |-> Optional].            *)
(*   - a datetime is a whole number of seconds; a float is an exact        *)
(*     fraction <<numerator, denominator>>.                                *)
(***************************************************************************)
EXTENDS Integers, Sequences, FiniteSets, TLC

VARIABLES
    geoCache,           \* lru_cache of geocode: <<[key, val]>>, oldest first
    routeCache,         \* lru_cache of get_travel_time, oldest first
    geoSince,           \* history: keys looked up since a key's last lookup
    routeSince,         \* history: the same for get_travel_time
    geoSeen,            \* history: addresses whose geocode call completed
    routeSeen,          \* history: pairs whose get_travel_time call completed
    calls,              \* history: the calls made by the last step
    pc,                 \* position of the process
    self,               \* get_travel_time_matrix: the client object
    addresses,          \* get_travel_time_matrix: the argument list
    progress_callback,  \* get_travel_time_matrix: "none" | "normal" | "raising"
    i, j,               \* get_travel_time_matrix: loop positions (1-based)
    current,            \* get_travel_time_matrix: local `current`
    total_pairs,        \* get_travel_time_matrix: local `total_pairs`
    matrix,             \* get_travel_time_matrix: local `matrix`
    cbLog,              \* the (current, total) the callback was invoked with
    returned,           \* history: what get_travel_time returned per pair
    visited,            \* history: the (i, j) get_travel_time was called at
    est,                \* _estimate_travel_time: arguments and result
    vcall,              \* the last call of a function, [fn, args, out]
    scored,             \* scheduler: history, the balance score call before
    rebuild,            \* history: which build this is, the matrix before
    agent,              \* generate_scenarios: locals and history
    session             \* main.py: st.session_state and the run's history

vars == <<geoCache, routeCache, geoSince, routeSince, geoSeen, routeSeen,
          calls, pc, self, addresses, progress_callback, i, j, current,
          total_pairs, matrix, cbLog, returned, visited, est, vcall, scored,
          rebuild, agent, session>>

\* ------------------------------------------------------------------ bounds

\* Longest address list handed to get_travel_time_matrix.
MaxLen == 2

\* lru_cache(maxsize=128) of geocode, scaled down so that the model's few
\* keys can fill the table and evict.
GeocodeCacheSize == 2

\* lru_cache(maxsize=256) of get_travel_time, scaled down likewise.
RouteCacheSize == 2

\* ------------------------------------------------------------ Python values

None == <<>>

Some(v) == <<v>>

Returns(v) == [exc |-> FALSE, val |-> v]

Raises == [exc |-> TRUE, val |-> None]

\* ---------------------------------------------------------------- addresses

\* The district labels of _estimate_travel_time, in the order of its list.
DISTRICTS ==
    << <<"gang", "nam", "gu">>,      \* 강남구
       <<"seo", "cho", "gu">>,       \* 서초구
       <<"song", "pa", "gu">>,       \* 송파구
       <<"gang", "dong", "gu">>,     \* 강동구
       <<"ma", "po", "gu">>,         \* 마포구
       <<"yong", "san", "gu">>,      \* 용산구
       <<"seong", "dong", "gu">> >>  \* 성동구

\* The address strings of the model.  The first two are the addresses of
\* test_integration.py's reservations.
ADDRESS_TEXT ==
    [ gangnam_teheran |->   \* 서울 강남구 테헤란로 123
        <<"seo", "ul", " ", "gang", "nam", "gu", " ",
          "te", "he", "ran", "ro", " ", "1", "2", "3">>,
      mapo_hongik |->       \* 서울 마포구 홍익로 456
        <<"seo", "ul", " ", "ma", "po", "gu", " ",
          "hong", "ik", "ro", " ", "4", "5", "6">>,
      mapo_gangnam |->      \* 마포구 강남구 (two labels)
        <<"ma", "po", "gu", " ", "gang", "nam", "gu">>,
      busan |->             \* 부산 (no label)
        <<"bu", "san">>,
      gangnam_yeoksam |->   \* 강남구 역삼
        <<"gang", "nam", "gu", " ", "yeok", "sam">>,
      seocho |->            \* 서초구
        <<"seo", "cho", "gu">>,
      seongdong_gangdong |-> \* 성동구 강동구 (two labels)
        <<"seong", "dong", "gu", " ", "gang", "dong", "gu">>,
      empty |->             \* the empty string
        <<>> ]

Addresses == DOMAIN ADDRESS_TEXT

\* The addresses get_travel_time_matrix is called with.
MatrixAddresses == {"gangnam_teheran", "mapo_hongik", "mapo_gangnam"}

\* The addresses geocode and get_travel_time are called with directly.
CacheAddresses == {"gangnam_teheran", "mapo_hongik"}

\* The client objects of the process.
Clients == {"client1", "client2"}

\* The client object a fresh process builds its matrix with (main.py and
\* test_integration.py construct one per build).
MatrixClients == {"client1"}

\* Python's `sub in s` on strings.
Contains(sub, s) ==
    \E k \in 0..(Len(s) - Len(sub)) : SubSeq(s, k + 1, k + Len(sub)) = sub

\* ----------------------------------------------------- _estimate_travel_time

\* The for loop of _estimate_travel_time from list position k on:
\* <<start_district, end_district>> when it ends.
RECURSIVE DistrictLoop(_, _, _, _, _)
DistrictLoop(k, start, end, start_district, end_district) ==
    IF k > Len(DISTRICTS)
    THEN <<start_district, end_district>>
    ELSE LET district == DISTRICTS[k]
         IN  DistrictLoop(k + 1, start, end,
                 IF Contains(district, start) THEN Some(district)
                                              ELSE start_district,
                 IF Contains(district, end) THEN Some(district)
                                            ELSE end_district)

\* Variant: the comparison without the truthiness test on start_district.
SameDistrictBroken(start_district, end_district) ==
    start_district = end_district

\* Variant: both districts found, not compared.
SameDistrictAnyLabel(start_district, end_district) ==
    start_district # None /\ end_district # None

\* `if start_district and start_district == end_district`
SameDistrict(start_district, end_district) ==
    start_district # None /\ start_district = end_district

\* Variant: the loop stops at an address's first matching label.
EstimateFirstLabel(start, end) ==
    LET first(s) == IF \E k \in 1..Len(DISTRICTS) : Contains(DISTRICTS[k], s)
                    THEN Some(DISTRICTS[CHOOSE k \in 1..Len(DISTRICTS) :
                             /\ Contains(DISTRICTS[k], s)
                             /\ \A m \in 1..(k - 1) : ~Contains(DISTRICTS[m], s)])
                    ELSE None
    IN  IF SameDistrict(first(ADDRESS_TEXT[start]), first(ADDRESS_TEXT[end]))
        THEN 25 ELSE 45

_estimate_travel_time(start, end) ==
    LET d == DistrictLoop(1, ADDRESS_TEXT[start], ADDRESS_TEXT[end], None, None)
    IN  IF SameDistrict(d[1], d[2]) THEN 25 ELSE 45

\* ---------------------------------------------------------------- lru_cache

\* Position of `key` in an lru_cache table, 0 when absent.
CacheIndex(cache, key) ==
    IF \E k \in 1..Len(cache) : cache[k].key = key
    THEN CHOOSE k \in 1..Len(cache) : cache[k].key = key
    ELSE 0

\* A hit makes the entry the most recently used one.
CacheTouch(cache, k) ==
    SubSeq(cache, 1, k - 1) \o SubSeq(cache, k + 1, Len(cache)) \o <<cache[k]>>

\* Variant: a full table drops its most recently used entry.
CacheStoreEvictNewest(cache, key, val, maxsize) ==
    IF Len(cache) >= maxsize
    THEN SubSeq(cache, 1, Len(cache) - 1) \o <<[key |-> key, val |-> val]>>
    ELSE Append(cache, [key |-> key, val |-> val])

\* Variant: a result of None is not stored.
CacheStoreSkipNone(cache, key, val, maxsize) ==
    IF val = None THEN cache
    ELSE IF Len(cache) >= maxsize
    THEN Tail(cache) \o <<[key |-> key, val |-> val]>>
    ELSE Append(cache, [key |-> key, val |-> val])

\* A miss stores the result; a full table drops its least recently used entry.
CacheStore(cache, key, val, maxsize) ==
    IF Len(cache) >= maxsize
    THEN Tail(cache) \o <<[key |-> key, val |-> val]>>
    ELSE Append(cache, [key |-> key, val |-> val])

\* lru_cache on a method keys its table on every argument, `self` included.
CacheKey(c, args) == <<c>> \o args

\* History of a table: for each key looked up, the set of other keys looked up
\* since, kept while that set has fewer than `maxsize` members.  `completed`
\* is whether the call returned (a call that raises stores nothing).
SinceUpdate(since, key, maxsize, completed) ==
    LET kept == {k \in DOMAIN since \ {key} :
                    Cardinality(since[k] \cup {key}) < maxsize}
        dom  == IF completed THEN kept \cup {key} ELSE kept
    IN  [k \in dom |-> IF k = key THEN {} ELSE since[k] \cup {key}]

\* ------------------------------------------------------------ remote service

\* What the geocode endpoint can do with one request:
\*   "error"   an exception inside the try block: requests.get fails or times
\*             out, raise_for_status or response.json raises, the first
\*             address lacks x or y or they are not numbers
\*   "not_ok"  status is not "OK", or no address is listed
\*   "ok"      a coordinate
GeoResponses == {"error", "not_ok", "ok"}

\* Durations in milliseconds the directions endpoint answers with: none, one
\* millisecond short of a minute, a minute, one short of two minutes.
Durations == {0, 59999, 60000, 119999}

\* What the directions endpoint can do with one request:
\*   "error"     an exception inside the try block: requests.get fails or
\*               times out, raise_for_status or response.json raises, the
\*               route lacks summary.duration or it is not a number
\*   "no_route"  code is not 0, or no route, or no trafast route
\*   "ok"        a duration
RouteResponses ==
    {[kind |-> k, duration |-> 0] : k \in {"error", "no_route"}}
        \cup {[kind |-> "ok", duration |-> d] : d \in Durations}

\* The (longitude, latitude) the service gives for an address.
Coordinate(address) == <<"lonlat", address>>

\* ------------------------------------------------------------------ geocode

\* Variant: no except clause around the request.
geocode_body_uncaught(address, response) ==
    CASE response = "ok"     -> Returns(Some(Coordinate(address)))
      [] response = "not_ok" -> Returns(None)
      [] OTHER               -> Raises

\* The body of geocode: every exception is caught and turned into None.
geocode_body(address, response) ==
    CASE response = "ok"     -> Returns(Some(Coordinate(address)))
      [] response = "not_ok" -> Returns(None)
      [] OTHER               -> Returns(None)

\* The state the calls act on: the two tables and their history.
World ==
    [geo |-> geoCache, route |-> routeCache,
     gsince |-> geoSince, rsince |-> routeSince,
     gseen |-> geoSeen, rseen |-> routeSeen, calls |-> <<>>]

\* self.geocode(address) through its lru_cache, the service answering
\* `response` if asked: [w |-> the state after, out |-> the outcome].
geocode(w, c, address, response) ==
    LET key == CacheKey(c, <<address>>)
        k   == CacheIndex(w.geo, key)
        hit == k # 0
        out == IF hit THEN Returns(w.geo[k].val)
                      ELSE geocode_body(address, response)
        event == [fn |-> "geocode", self |-> c, args |-> <<address>>,
                  hit |-> hit,
                  window |-> key \in DOMAIN w.gsince,
                  seen |-> address \in w.gseen,
                  requests |-> IF hit THEN 0 ELSE 1,
                  geocodes |-> 0, routes |-> 0,
                  response |-> IF hit THEN "not_sent" ELSE response,
                  duration |-> None,
                  start_coords |-> None, end_coords |-> None,
                  out |-> out]
    IN  [w |-> [w EXCEPT
                  !.geo = IF hit THEN CacheTouch(w.geo, k)
                          ELSE IF out.exc THEN w.geo
                          ELSE CacheStore(w.geo, key, out.val, GeocodeCacheSize),
                  !.gsince = SinceUpdate(w.gsince, key, GeocodeCacheSize, ~out.exc),
                  !.gseen = IF out.exc THEN w.gseen ELSE w.gseen \cup {address},
                  !.calls = Append(w.calls, event)],
         out |-> out]

\* ---------------------------------------------------------- get_travel_time

\* Variant: the minutes rounded to the nearest whole number.
MinutesRounded(duration_ms) == (duration_ms + 30000) \div (1000 * 60)

\* `travel_time_min = duration_ms // (1000 * 60)`
Minutes(duration_ms) == duration_ms \div (1000 * 60)

\* Variant: no except clause around the request.
directions_body_uncaught(response) ==
    CASE response.kind = "ok" -> Returns(Some(Minutes(response.duration)))
      [] response.kind = "no_route" -> Returns(None)
      [] OTHER -> Raises

\* The try block of get_travel_time, the directions request answered by
\* `response`: whole minutes, or None on no route and on any exception.
directions_body(response) ==
    CASE response.kind = "ok" -> Returns(Some(Minutes(response.duration)))
      [] OTHER                -> Returns(None)

\* Variant: `and` for `or`, the route is asked for unless both are missing.
MissingCoordinateBoth(start_coords, end_coords) ==
    start_coords = None /\ end_coords = None

\* `if not start_coords or not end_coords`, line 83.
MissingCoordinate(start_coords, end_coords) ==
    start_coords = None \/ end_coords = None

\* The body of get_travel_time in state w: both addresses are geocoded, then
\* the route is asked for when both have a coordinate.
\* [w, out, start_coords, end_coords, response, duration, requests,
\*  geocodes, routes].
get_travel_time_body(w, c, start_address, end_address, g1, g2, r) ==
    LET After(first, second) ==
            LET n1 == first.w.calls[Len(first.w.calls)].requests
                n2 == second.w.calls[Len(second.w.calls)].requests
            IN  IF second.out.exc
                THEN [w |-> second.w, out |-> Raises,
                      start_coords |-> first.out.val, end_coords |-> None,
                      response |-> "not_sent", duration |-> None,
                      requests |-> n1 + n2, geocodes |-> 2, routes |-> 0]
                ELSE IF MissingCoordinate(first.out.val, second.out.val)
                THEN [w |-> second.w, out |-> Returns(None),
                      start_coords |-> first.out.val,
                      end_coords |-> second.out.val,
                      response |-> "not_sent", duration |-> None,
                      requests |-> n1 + n2, geocodes |-> 2, routes |-> 0]
                ELSE [w |-> second.w, out |-> directions_body(r),
                      start_coords |-> first.out.val,
                      end_coords |-> second.out.val,
                      response |-> r.kind,
                      duration |-> IF r.kind = "ok" THEN Some(r.duration)
                                                    ELSE None,
                      requests |-> n1 + n2 + 1, geocodes |-> 2, routes |-> 1]
        AfterFirst(first) ==
            IF first.out.exc
            THEN {[w |-> first.w, out |-> Raises, start_coords |-> None,
                   end_coords |-> None, response |-> "not_sent",
                   duration |-> None,
                   requests |-> first.w.calls[Len(first.w.calls)].requests,
                   geocodes |-> 1, routes |-> 0]}
            ELSE {After(first, second) :
                     second \in {geocode(first.w, c, end_address, g2)}}
    IN  CHOOSE b \in UNION {AfterFirst(first) :
                               first \in {geocode(w, c, start_address, g1)}} : TRUE

\* self.get_travel_time(start_address, end_address) through its lru_cache:
\* [w |-> the state after, out |-> the outcome].
get_travel_time(w, c, start_address, end_address, g1, g2, r) ==
    LET key == CacheKey(c, <<start_address, end_address>>)
        k   == CacheIndex(w.route, key)
        Finish(hit, w1, out, b) ==
            LET event == [fn |-> "get_travel_time", self |-> c,
                          args |-> <<start_address, end_address>>,
                          hit |-> hit,
                          window |-> key \in DOMAIN w.rsince,
                          seen |-> <<start_address, end_address>> \in w.rseen,
                          requests |-> b.requests,
                          geocodes |-> b.geocodes,
                          routes |-> b.routes,
                          response |-> b.response,
                          duration |-> b.duration,
                          start_coords |-> b.start_coords,
                          end_coords |-> b.end_coords,
                          out |-> out]
            IN  [w |-> [w1 EXCEPT
                          !.route = IF hit THEN CacheTouch(w.route, k)
                                    ELSE IF out.exc THEN w.route
                                    ELSE CacheStore(w.route, key, out.val,
                                                    RouteCacheSize),
                          !.rsince = SinceUpdate(w.rsince, key, RouteCacheSize,
                                                 ~out.exc),
                          !.rseen = IF out.exc THEN w.rseen
                                    ELSE w.rseen \cup
                                         {<<start_address, end_address>>},
                          !.calls = Append(w1.calls, event)],
                 out |-> out]
    IN  IF k # 0
        THEN Finish(TRUE, w, Returns(w.route[k].val),
                    [requests |-> 0, geocodes |-> 0, routes |-> 0,
                     response |-> "not_sent",
                     duration |-> None,
                     start_coords |-> None, end_coords |-> None])
        ELSE CHOOSE res \in
                 {Finish(FALSE, b.w, b.out, b) :
                     b \in {get_travel_time_body(w, c, start_address,
                                                 end_address, g1, g2, r)}} : TRUE

\* The answers the service may give to the requests of one
\* get_travel_time(c, s, e) call in state w, <<g1, g2, r>>, geocode answers
\* from G and directions answers from R: an answer is drawn only for a
\* request the call can send (a table hit sends none).
Answers(w, c, s, e, G, R) ==
    LET routeMiss == CacheIndex(w.route, CacheKey(c, <<s, e>>)) = 0
        ask1 == routeMiss /\ CacheIndex(w.geo, CacheKey(c, <<s>>)) = 0
        ask2 == routeMiss /\ (ask1 \/ CacheIndex(w.geo, CacheKey(c, <<e>>)) = 0)
    IN  (IF ask1 THEN G ELSE {"ok"})
            \X (IF ask2 THEN G ELSE {"ok"})
            \X (IF routeMiss THEN R
                             ELSE {[kind |-> "ok", duration |-> 0]})

\* --------------------------------------------------- get_travel_time_matrix

\* Every list of at most n addresses.
Lists(n) == UNION {[1..m -> MatrixAddresses] : m \in 0..n}

\* What get_travel_time_matrix can be handed as progress_callback: None, a
\* callable that returns, a callable that raises.
Callbacks == {"none", "normal", "raising"}

\* matrix[key] = val
Put(m, key, val) ==
    [x \in DOMAIN m \cup {key} |-> IF x = key THEN val ELSE m[x]]

\* Variant: the value written for both directions of the pair.
SetEntrySymmetric(m, start, end, val) ==
    Put(Put(m, <<start, end>>, val), <<end, start>>, val)

\* matrix[(start, end)] = ..., lines 146 and 149: the one key of the pass.
SetEntry(m, start, end, val) == Put(m, <<start, end>>, val)

\* Variant: the inner loop does not start over for the next row.
AdvanceNoReset(n) ==
    IF j < n THEN i' = i /\ j' = j + 1 ELSE i' = i + 1 /\ j' = j

\* Variant: a pair whose call gave None is tried a second time.
AdvanceRetry(n) ==
    IF /\ i # j
       /\ calls' # <<>>
       /\ calls'[Len(calls')].out.val = None
       /\ (visited = <<>> \/ visited[Len(visited)] # <<i, j>>)
    THEN i' = i /\ j' = j
    ELSE IF j < n THEN i' = i /\ j' = j + 1 ELSE i' = i + 1 /\ j' = 1

\* Variant: the loops nested the other way round, j outside and i inside.
AdvanceColumnMajor(n) ==
    IF i < n THEN i' = i + 1 /\ j' = j
    ELSE IF j < n THEN i' = 1 /\ j' = j + 1
    ELSE i' = n + 1 /\ j' = j

\* The two for loops over enumerate(addresses): the next (i, j).
Advance(n) ==
    IF j < n THEN i' = i /\ j' = j + 1 ELSE i' = i + 1 /\ j' = 1

\* Variant: the diagonal pairs counted too.
TotalPairsSquare(n) == n * n

\* total_pairs = len(addresses) * (len(addresses) - 1)
TotalPairs(n) == n * (n - 1)

\* The state a call leaves: the tables, their history, the calls it made.
Commit(w) ==
    /\ geoCache' = w.geo
    /\ routeCache' = w.route
    /\ geoSince' = w.gsince
    /\ routeSince' = w.rsince
    /\ geoSeen' = w.gseen
    /\ routeSeen' = w.rseen
    /\ calls' = w.calls

tables == <<geoCache, routeCache, geoSince, routeSince, geoSeen, routeSeen>>

locals == <<self, addresses, progress_callback, i, j, current, total_pairs,
            matrix, cbLog, returned, visited>>

scheduler == <<vcall, scored>>

app == <<rebuild, agent, session>>

\* get_travel_time_matrix is entered: lines 133-135.
CallMatrix ==
    /\ pc = "idle"
    /\ \E c \in MatrixClients, list \in Lists(MaxLen), cb \in Callbacks :
          /\ self' = c
          /\ addresses' = list
          /\ progress_callback' = cb
          /\ total_pairs' = TotalPairs(Len(list))
    /\ matrix' = <<>>
    /\ current' = 0
    /\ i' = 1
    /\ j' = 1
    /\ cbLog' = <<>>
    /\ returned' = <<>>
    /\ visited' = <<>>
    /\ calls' = <<>>
    /\ pc' = "loop"
    /\ UNCHANGED <<app, tables, est, scheduler>>

\* Variant: `if travel_time:` instead of `is not None`.
EntryValueTruthy(travel_time, start, end) ==
    IF travel_time # None /\ travel_time # Some(0)
    THEN travel_time[1]
    ELSE _estimate_travel_time(start, end)

\* `if travel_time is not None` ... else the estimate: the value written.
EntryValue(travel_time, start, end) ==
    IF travel_time # None
    THEN travel_time[1]
    ELSE _estimate_travel_time(start, end)

\* Variant: the diagonal estimated like any other pair.
DiagonalValueEstimated(start, end) == _estimate_travel_time(start, end)

\* matrix[(start, end)] = 0 of the i == j branch.
DiagonalValue(start, end) == 0

\* Variant: no branch for the diagonal, every pair is asked for.
IsDiagonalNever(m, n) == FALSE

\* `if i == j`: the positions are compared, not the addresses.
IsDiagonal(m, n) == m = n

\* One pass of the inner loop body with i == j: line 140.
LoopDiagonal ==
    /\ pc = "loop"
    /\ i <= Len(addresses)
    /\ IsDiagonal(i, j)
    /\ matrix' = Put(matrix, <<addresses[i], addresses[j]>>,
                     DiagonalValue(addresses[i], addresses[j]))
    /\ Advance(Len(addresses))
    /\ calls' = <<>>
    /\ UNCHANGED <<app, tables, pc, self, addresses, progress_callback, current,
                   total_pairs, cbLog, returned, visited, est, scheduler>>

\* The answers of the service to the requests of a build: any answer in the
\* first build; in the second, where the service is asked again only for a
\* pair the table has lost, the address is found and the route is a minute.
BuildGeoResponses == IF rebuild.n = 1 THEN GeoResponses ELSE {"ok"}

BuildRouteResponses ==
    IF rebuild.n = 1 THEN RouteResponses
                     ELSE {[kind |-> "ok", duration |-> 60000]}

\* One pass of the inner loop body with i != j: lines 142-153.  The remote
\* service answers the requests of this pass with g1, g2 and r.
LoopPair ==
    /\ pc = "loop"
    /\ i <= Len(addresses)
    /\ ~IsDiagonal(i, j)
    /\ \E a \in Answers(World, self, addresses[i], addresses[j],
                          BuildGeoResponses, BuildRouteResponses) :
          \E call \in {get_travel_time(World, self, addresses[i], addresses[j],
                                        a[1], a[2], a[3])} :
          LET start == addresses[i]
              end   == addresses[j]
          IN  /\ Commit(call.w)
              /\ IF call.out.exc
                 THEN /\ pc' = "raised"
                      /\ UNCHANGED <<i, j, matrix, current, cbLog, returned>>
                 ELSE /\ matrix' = SetEntry(matrix, start, end,
                                            EntryValue(call.out.val, start, end))
                      /\ returned' = Put(returned, <<start, end>>, call.out.val)
                      /\ current' = current + 1
                      /\ IF progress_callback = "none"
                         THEN /\ cbLog' = cbLog
                              /\ pc' = pc
                              /\ Advance(Len(addresses))
                         ELSE /\ cbLog' = Append(cbLog, <<current', total_pairs>>)
                              /\ IF progress_callback = "raising"
                                 THEN pc' = "raised" /\ UNCHANGED <<i, j>>
                                 ELSE pc' = pc /\ Advance(Len(addresses))
    /\ visited' = Append(visited, <<i, j>>)
    /\ UNCHANGED <<app, self, addresses, progress_callback, total_pairs, est, scheduler>>

\* The loops are over: `return matrix`, line 155.
ReturnMatrix ==
    /\ pc = "loop"
    /\ i > Len(addresses)
    /\ pc' = "returned"
    /\ calls' = <<>>
    /\ UNCHANGED <<app, tables, locals, est, scheduler>>

\* get_travel_time_matrix is called a second time on the same client object
\* with the same list, after the first call returned.
CallMatrixAgain ==
    /\ pc = "returned"
    /\ rebuild.n = 1
    /\ rebuild' = [n |-> 2, first |-> Some(matrix)]
    /\ total_pairs' = TotalPairs(Len(addresses))
    /\ matrix' = <<>>
    /\ current' = 0
    /\ i' = 1
    /\ j' = 1
    /\ cbLog' = <<>>
    /\ returned' = <<>>
    /\ visited' = <<>>
    /\ calls' = <<>>
    /\ pc' = "loop"
    /\ UNCHANGED <<agent, session, tables, self, addresses, progress_callback,
                   est, scheduler>>

\* ------------------------------------------------------------- direct calls

\* The answers of the service in the runs of direct calls: a geocode request
\* finds the address or does not, a directions request finds a route of one
\* minute or none.  (An "error" answer leaves the same None in the table.)
CacheGeoResponses == {"not_ok", "ok"}

CacheRouteResponses ==
    {[kind |-> "no_route", duration |-> 0], [kind |-> "ok", duration |-> 60000]}


\* client.geocode(address) called on its own.
CallGeocode ==
    /\ pc = "idle"
    /\ \E c \in Clients, address \in CacheAddresses :
          \E g \in (IF CacheIndex(geoCache, CacheKey(c, <<address>>)) = 0
                     THEN CacheGeoResponses ELSE {"ok"}) :
          \E call \in {geocode(World, c, address, g)} : Commit(call.w)
    /\ UNCHANGED <<app, pc, locals, est, scheduler>>

\* client.get_travel_time(start_address, end_address) called on its own.
CallGetTravelTime ==
    /\ pc = "idle"
    /\ \E c \in Clients, s \in CacheAddresses :
          \E e \in CacheAddresses \ {s} :
          \E a \in Answers(World, c, s, e, CacheGeoResponses,
                            CacheRouteResponses) :
          \E call \in {get_travel_time(World, c, s, e, a[1], a[2], a[3])} :
              Commit(call.w)
    /\ UNCHANGED <<app, pc, locals, est, scheduler>>

\* NaverMapsClient._estimate_travel_time(start, end) called on its own.
CallEstimate ==
    /\ pc = "estimate"
    /\ est' = [est EXCEPT !.val = Some(_estimate_travel_time(est.start, est.end))]
    /\ pc' = "estimated"
    /\ UNCHANGED <<app, tables, calls, locals, scheduler>>

\* --------------------------------------------------------- ScheduleValidator

\* Latest instant of the availability windows and slots of the model.
MaxTime == 3

\* Largest capacity bound of a reservation of the model.
MaxCapacity == 3

\* A datetime is a whole number of seconds since the start of the day.
Datetimes == 0..MaxTime

\* models.User, with the fields is_user_available reads.
Users == [available_from : Datetimes, available_until : Datetimes]

\* Variant: the window's ends excluded.
is_user_available_exclusive(user, start_time, end_time) ==
    user.available_from < start_time /\ user.available_until > end_time

\* ScheduleValidator.is_user_available
is_user_available(user, start_time, end_time) ==
    user.available_from <= start_time /\ user.available_until >= end_time

\* models.Reservation, with the fields is_capacity_valid reads; validate_capacity
\* makes each of them positive.
CapacityReservations ==
    [min_capacity : 1..MaxCapacity, max_capacity : 1..MaxCapacity]

\* num_members: from below every min_capacity - 2 to above every
\* max_capacity + 2.
MemberCounts == (0 - 1)..(MaxCapacity + 2)

\* How the caller passes `flexible`: not at all, True, False.
Flexibles == {"omitted", "True", "False"}

\* `flexible: bool = True`
FlexibleValue(flexible) == flexible # "False"

\* Variant: two people of slack, as the docstring's "1-2 people" allows.
is_capacity_valid_two(reservation, num_members, flexible) ==
    IF FlexibleValue(flexible)
    THEN /\ reservation.min_capacity - 2 <= num_members
         /\ num_members <= reservation.max_capacity + 2
    ELSE /\ reservation.min_capacity <= num_members
         /\ num_members <= reservation.max_capacity

\* ScheduleValidator.is_capacity_valid
is_capacity_valid(reservation, num_members, flexible) ==
    IF FlexibleValue(flexible)
    THEN /\ reservation.min_capacity - 1 <= num_members
         /\ num_members <= reservation.max_capacity + 1
    ELSE /\ reservation.min_capacity <= num_members
         /\ num_members <= reservation.max_capacity

\* end_time of the previous reservation, in seconds: midnight, one o'clock.
PrevEndTimes == {0, 3600}

\* next.start_time - prev.end_time in seconds: a quarter of an hour early, a
\* second early, none, a second, 14 minutes, a second short of 15 minutes,
\* 15 minutes, a second more, half an hour.
GapSeconds == {0 - 900, 0 - 1, 0, 1, 840, 899, 900, 901, 1800}

\* travel_time_minutes
TravelMinutes == {0 - 1, 0, 1, 14, 15, 16}

\* timedelta.total_seconds() / 60 as the fraction <<numerator, denominator>>.
TimeGap(prev_reservation, next_reservation) ==
    <<next_reservation.start_time - prev_reservation.end_time, 60>>

\* Variant: the gap has to be longer than the travel time.
is_travel_time_feasible_strict(prev_reservation, next_reservation, travel_time_minutes) ==
    LET time_gap == TimeGap(prev_reservation, next_reservation)
    IN  time_gap[1] > travel_time_minutes * time_gap[2]

\* ScheduleValidator.is_travel_time_feasible
is_travel_time_feasible(prev_reservation, next_reservation, travel_time_minutes) ==
    LET time_gap == TimeGap(prev_reservation, next_reservation)
    IN  time_gap[1] >= travel_time_minutes * time_gap[2]

\* The marker of needs_horror_tank: 공포.
HORROR == <<"gong", "po">>

\* str.lower() on the characters of the model's themes; Hangul has no case.
LOWER ==
    [H |-> "h", O |-> "o", R |-> "r", G |-> "g", N |-> "n", P |-> "p"]

Lower(s) ==
    [k \in 1..Len(s) |-> IF s[k] \in DOMAIN LOWER THEN LOWER[s[k]] ELSE s[k]]

\* The theme labels of the model.
THEME_TEXT ==
    [ gongpo_jihasil |->    \* 공포의 지하실
        <<"gong", "po", "ui", " ", "ji", "ha", "sil">>,
      churi |->             \* 추리
        <<"chu", "ri">>,
      simri_gongpo |->      \* 심리 공포 (the marker last)
        <<"sim", "ri", " ", "gong", "po">>,
      pogong |->            \* 포공 (the marker's characters reversed)
        <<"po", "gong">>,
      gong_po |->           \* 공 포 (a blank inside)
        <<"gong", " ", "po">>,
      gong |->              \* 공 (half the marker)
        <<"gong">>,
      HORROR_gongpo |->     \* HORROR 공포
        <<"H", "O", "R", "R", "O", "R", " ", "gong", "po">>,
      HORROR_latin |->      \* HORROR
        <<"H", "O", "R", "R", "O", "R">>,
      GONGPO_latin |->      \* GONGPO (the marker romanised)
        <<"G", "O", "N", "G", "P", "O">>,
      blank |->             \* the empty string
        <<>> ]

Themes == DOMAIN THEME_TEXT

\* models.User.horror_position
Positions == {"tank", "civilian", "scaredy"}

\* models.TeamAssignment, with its reservation's theme and the positions of
\* its members.
Assignments == [reservation : [theme : Themes], members : SUBSET Positions]

\* Variant: the theme has to be the marker itself.
needs_horror_tank_exact(reservation) ==
    Lower(THEME_TEXT[reservation.theme]) = HORROR

\* ScheduleValidator.needs_horror_tank
needs_horror_tank(reservation) ==
    Contains(HORROR, Lower(THEME_TEXT[reservation.theme]))

\* ScheduleValidator.is_user_available(user, start_time, end_time) is called.
CallIsUserAvailable ==
    /\ pc = "idle"
    /\ \E user \in Users, start_time \in Datetimes, end_time \in Datetimes :
          vcall' = [fn |-> "is_user_available",
                    args |-> [user |-> user, start_time |-> start_time,
                              end_time |-> end_time],
                    out |-> is_user_available(user, start_time, end_time)]
    /\ UNCHANGED <<app, tables, calls, pc, locals, est, scored>>

\* ScheduleValidator.is_capacity_valid(reservation, num_members[, flexible])
\* is called.
CallIsCapacityValid ==
    /\ pc = "idle"
    /\ \E reservation \in CapacityReservations, num_members \in MemberCounts,
          flexible \in Flexibles :
          vcall' = [fn |-> "is_capacity_valid",
                    args |-> [reservation |-> reservation,
                              num_members |-> num_members,
                              flexible |-> flexible],
                    out |-> is_capacity_valid(reservation, num_members,
                                              flexible)]
    /\ UNCHANGED <<app, tables, calls, pc, locals, est, scored>>

\* ScheduleValidator.is_travel_time_feasible(prev, next, minutes) is called.
CallIsTravelTimeFeasible ==
    /\ pc = "idle"
    /\ \E end_time \in PrevEndTimes, gap \in GapSeconds,
          travel_time_minutes \in TravelMinutes :
          LET prev_reservation == [end_time |-> end_time]
              next_reservation == [start_time |-> end_time + gap]
          IN  vcall' = [fn |-> "is_travel_time_feasible",
                        args |-> [prev_reservation |-> prev_reservation,
                                  next_reservation |-> next_reservation,
                                  travel_time_minutes |-> travel_time_minutes],
                        out |-> is_travel_time_feasible(prev_reservation,
                                    next_reservation, travel_time_minutes)]
    /\ UNCHANGED <<app, tables, calls, pc, locals, est, scored>>

\* ScheduleValidator.needs_horror_tank(assignment.reservation) is called for
\* a team assignment.
CallNeedsHorrorTank ==
    /\ pc = "idle"
    /\ \E assignment \in Assignments :
          vcall' = [fn |-> "needs_horror_tank",
                    args |-> assignment,
                    out |-> needs_horror_tank(assignment.reservation)]
    /\ UNCHANGED <<app, tables, calls, pc, locals, est, scored>>

\* ---------------------------------------------------------- ScheduleAnalyzer

\* Most teams of a schedule of the model.
MaxTeams == 3

\* Most assignments of one team of the model.
MaxAssignments == 4

\* A Python float is modelled by the exact fraction <<numerator, denominator>>
\* in lowest terms with a positive denominator (the rounding of a double is
\* left out: for the counts of the model it stays below 1e-15).
RECURSIVE GCD(_, _)
GCD(a, b) == IF b = 0 THEN a ELSE GCD(b, a % b)

Frac(n, d) ==
    LET sn == IF d < 0 THEN 0 - n ELSE n
        sd == IF d < 0 THEN 0 - d ELSE d
        g  == GCD(IF sn < 0 THEN 0 - sn ELSE sn, sd)
    IN  <<sn \div g, sd \div g>>

FracAdd(a, b) == Frac(a[1] * b[2] + b[1] * a[2], a[2] * b[2])

FracSub(a, b) == Frac(a[1] * b[2] - b[1] * a[2], a[2] * b[2])

FracMul(a, b) == Frac(a[1] * b[1], a[2] * b[2])

FracDiv(a, b) == Frac(a[1] * b[2], a[2] * b[1])

FracLe(a, b) == a[1] * b[2] <= b[1] * a[2]

FracMax(a, b) == IF FracLe(a, b) THEN b ELSE a

\* sum(...) of a list of fractions.
RECURSIVE FracSum(_)
FracSum(list) ==
    IF list = <<>> THEN Frac(0, 1)
    ELSE FracAdd(Head(list), FracSum(Tail(list)))

\* The list of a team's assignments: only its length is read.
AssignmentLists == {[k \in 1..m |-> "assignment"] : m \in 0..MaxAssignments}

\* models.Schedule, with its teams: team_id -> list of assignments.
Schedules == [teams : UNION {[1..n -> AssignmentLists] : n \in 0..MaxTeams}]

\* [len(assignments) for assignments in schedule.teams.values()]
AssignmentCounts(schedule) ==
    [t \in DOMAIN schedule.teams |-> Len(schedule.teams[t])]

\* Variant: `//` for `/`.
MeanFloor(assignment_counts) ==
    Frac(FracSum([k \in DOMAIN assignment_counts |->
                     Frac(assignment_counts[k], 1)])[1]
             \div Len(assignment_counts), 1)

\* mean_count = sum(assignment_counts) / len(assignment_counts)
Mean(assignment_counts) ==
    FracDiv(FracSum([k \in DOMAIN assignment_counts |->
                        Frac(assignment_counts[k], 1)]),
            Frac(Len(assignment_counts), 1))

\* variance = sum((c - mean_count) ** 2 for c in ...) / len(...)
Variance(assignment_counts, mean_count) ==
    LET dev(c) == FracSub(Frac(c, 1), mean_count)
    IN  FracDiv(FracSum([k \in DOMAIN assignment_counts |->
                            FracMul(dev(assignment_counts[k]),
                                    dev(assignment_counts[k]))]),
                Frac(Len(assignment_counts), 1))

\* Variant: the variance divided by the mean, not by its square.
NormalizedVarianceByMean(variance, mean_count) ==
    FracDiv(variance, mean_count)

\* normalized_variance = variance / (mean_count**2)
NormalizedVariance(variance, mean_count) ==
    FracDiv(variance, FracMul(mean_count, mean_count))

\* Variant: no clamp at 0.
ScoreUnclamped(normalized_variance) ==
    FracSub(Frac(1, 1), normalized_variance)

\* score = max(0.0, 1.0 - normalized_variance)
Score(normalized_variance) ==
    FracMax(Frac(0, 1), FracSub(Frac(1, 1), normalized_variance))

\* ScheduleAnalyzer.calculate_balance_score
calculate_balance_score(schedule) ==
    IF schedule.teams = <<>>
    THEN Frac(0, 1)
    ELSE LET assignment_counts == AssignmentCounts(schedule)
         IN  IF assignment_counts = <<>>
             THEN Frac(0, 1)
             ELSE LET mean_count == Mean(assignment_counts)
                      variance == Variance(assignment_counts, mean_count)
                  IN  IF mean_count = Frac(0, 1)
                      THEN Frac(1, 1)
                      ELSE Score(NormalizedVariance(variance, mean_count))

\* History of a balance score call: how many teams, the sum of their counts,
\* the sum of the squares of their counts, the score returned.
Tally(call) ==
    LET counts == AssignmentCounts(call.args.schedule)
        sumTo[k \in 0..Len(counts)] ==
            IF k = 0 THEN <<0, 0>>
            ELSE <<sumTo[k - 1][1] + counts[k],
                   sumTo[k - 1][2] + counts[k] * counts[k]>>
    IN  [teams |-> Len(counts), total |-> sumTo[Len(counts)][1],
         squares |-> sumTo[Len(counts)][2], out |-> call.out]

\* The schedules that spread the assignments of `schedule` over its teams in
\* another way: as many teams, as many assignments in all.
RECURSIVE SumOf(_)
SumOf(list) == IF list = <<>> THEN 0 ELSE Head(list) + SumOf(Tail(list))

Redistributions(schedule) ==
    LET total == SumOf(AssignmentCounts(schedule))
    IN  {s \in [teams : [DOMAIN schedule.teams -> AssignmentLists]] :
            SumOf(AssignmentCounts(s)) = total}

\* ScheduleAnalyzer.calculate_balance_score(schedule) is called on any
\* schedule.
CallBalanceScore ==
    /\ pc = "score"
    /\ \E schedule \in Schedules :
          vcall' = [fn |-> "calculate_balance_score",
                    args |-> [schedule |-> schedule],
                    out |-> calculate_balance_score(schedule)]
    /\ scored' = None
    /\ pc' = "score_again"
    /\ UNCHANGED <<app, tables, calls, locals, est>>

\* ... and called again on a schedule that has the same teams and the same
\* assignments in all, spread in any way.
CallBalanceScoreAgain ==
    /\ pc = "score_again"
    /\ scored' = Some(Tally(vcall))
    /\ \E schedule \in Redistributions(vcall.args.schedule) :
          vcall' = [fn |-> "calculate_balance_score",
                    args |-> [schedule |-> schedule],
                    out |-> calculate_balance_score(schedule)]
    /\ pc' = "scored"
    /\ UNCHANGED <<app, tables, calls, locals, est>>

\* -------------------------------------------------------------------- models

\* What a datetime field can be handed: a str that has the format
\* "%Y-%m-%d %H:%M" and names the instant `at`, a str that has not, or a
\* datetime object.
RawTimes ==
    [type : {"str"}, well_formed : {TRUE}, at : Datetimes]
        \cup {[type |-> "str", well_formed |-> FALSE]}
        \cup [type : {"datetime"}, at : Datetimes]

\* datetime.strptime(value, "%Y-%m-%d %H:%M")
strptime(value) ==
    IF value.well_formed THEN Returns(value.at) ELSE Raises

\* Reservation.parse_datetime and User.parse_datetime: `if isinstance(value,
\* str)` the string is parsed, anything else goes on as it is.
parse_datetime(value) ==
    IF value.type = "str" THEN strptime(value) ELSE Returns(value.at)

\* What a capacity field can be handed: an int from below zero upwards.
RawCapacities == (0 - 1)..MaxCapacity

\* Reservation.validate_capacity: `if value <= 0: raise ValueError`.
validate_capacity(value) ==
    IF value <= 0 THEN Raises ELSE Returns(value)

\* The keyword arguments of Reservation(...), with the fields that have a
\* validator.  (room_name, address and theme are plain str.)
ReservationKwargs ==
    [start_time : RawTimes, end_time : RawTimes, min_capacity : RawCapacities,
     optimal_capacity : RawCapacities, max_capacity : RawCapacities]

\* Reservation(**kwargs): every field goes through its validator, and the
\* object is built when none of them raised.  The class has no validator
\* that reads two fields.
Reservation(kwargs) ==
    LET start_time       == parse_datetime(kwargs.start_time)
        end_time         == parse_datetime(kwargs.end_time)
        min_capacity     == validate_capacity(kwargs.min_capacity)
        optimal_capacity == validate_capacity(kwargs.optimal_capacity)
        max_capacity     == validate_capacity(kwargs.max_capacity)
    IN  IF \/ start_time.exc
           \/ end_time.exc
           \/ min_capacity.exc
           \/ optimal_capacity.exc
           \/ max_capacity.exc
        THEN Raises
        ELSE Returns([start_time       |-> start_time.val,
                      end_time         |-> end_time.val,
                      min_capacity     |-> min_capacity.val,
                      optimal_capacity |-> optimal_capacity.val,
                      max_capacity     |-> max_capacity.val])

\* What horror_position can be handed: the three positions and another str.
RawPositions == Positions \cup {"other"}

\* The Literal type of horror_position and User.validate_position.
validate_position(value) ==
    IF value \notin Positions THEN Raises ELSE Returns(value)

\* The keyword arguments of User(...), with the fields that have a validator.
UserKwargs ==
    [available_from : RawTimes, available_until : RawTimes,
     horror_position : RawPositions]

\* User(**kwargs)
User(kwargs) ==
    LET available_from  == parse_datetime(kwargs.available_from)
        available_until == parse_datetime(kwargs.available_until)
        horror_position == validate_position(kwargs.horror_position)
    IN  IF \/ available_from.exc
           \/ available_until.exc
           \/ horror_position.exc
        THEN Raises
        ELSE Returns([available_from  |-> available_from.val,
                      available_until |-> available_until.val,
                      horror_position |-> horror_position.val])

\* Reservation(...) is called.
ConstructReservation ==
    /\ pc = "construct"
    /\ \E kwargs \in ReservationKwargs :
          vcall' = [fn |-> "Reservation", args |-> kwargs,
                    out |-> Reservation(kwargs)]
    /\ UNCHANGED <<app, tables, calls, locals, est, scored>>
    /\ pc' = "constructed"

\* User(...) is called.
ConstructUser ==
    /\ pc = "construct"
    /\ \E kwargs \in UserKwargs :
          vcall' = [fn |-> "User", args |-> kwargs, out |-> User(kwargs)]
    /\ UNCHANGED <<app, tables, calls, locals, est, scored>>
    /\ pc' = "constructed"

\* dict.get(key, default), and a keyword argument that has a default.
Get(d, key, default) == IF key \in DOMAIN d THEN d[key] ELSE default

\* A key that is given with the value v, or not given.
Given(values) == {None} \cup {Some(v) : v \in values}

\* The member lists of the model: names.
MemberLists == {<<>>, <<"kim">>, <<"kim", "lee">>}

\* The dict that has the given ones of the three keys.
AssignmentDict(members, member_count, travel_time_from_previous) ==
    [k \in {key \in {"members"} : members # None}
            \cup {key \in {"member_count"} : member_count # None}
            \cup {key \in {"travel_time_from_previous"} :
                      travel_time_from_previous # None} |->
        CASE k = "members" -> members[1]
          [] k = "member_count" -> member_count[1]
          [] k = "travel_time_from_previous" -> travel_time_from_previous[1]]

\* An assignment as a caller or the optimizer's answer gives it: a dict that
\* has any of the keys members, member_count, travel_time_from_previous.
AssignmentDicts ==
    {AssignmentDict(m, c, t) :
        m \in Given(MemberLists), c \in Given({0, 2}),
        t \in Given({0 - 5, 0, 15})}

\* The keyword arguments of TeamAssignment(...): team_id and reservation are
\* given, members and travel_time_from_previous are given or not.
TeamAssignmentKwargs ==
    {d \in AssignmentDicts : "member_count" \notin DOMAIN d}

\* TeamAssignment(**kwargs): `members: list[User]` has no default and is
\* required, `travel_time_from_previous: int = 0` has one.
TeamAssignment(kwargs) ==
    IF "members" \notin DOMAIN kwargs
    THEN Raises
    ELSE Returns([members |-> kwargs["members"],
                  travel_time_from_previous |->
                      Get(kwargs, "travel_time_from_previous", 0)])

\* The body of format_scenario_summary's loop over a team's assignments:
\* what it reads of one assignment and whether it writes the travel line.
format_assignment(assignment) ==
    LET members      == Get(assignment, "members", <<>>)
        member_count == Get(assignment, "member_count", Len(members))
        travel_time  == Get(assignment, "travel_time_from_previous", 0)
    IN  [kind |-> "assignment",
         members |-> members,
         members_str |-> IF members # <<>> THEN "joined" ELSE "no_members",
         member_count |-> member_count,
         travel_time |-> travel_time,
         travel_line |-> travel_time > 0]

RECURSIVE format_assignments(_)
format_assignments(assignments) ==
    IF assignments = <<>> THEN <<>>
    ELSE <<format_assignment(Head(assignments))>>
             \o format_assignments(Tail(assignments))

\* The scenarios of the model: no "teams" key, no team, or team 1 with at
\* most one assignment.
Scenarios ==
    {<<>>}
        \cup {[k \in {"teams"} |-> <<>>]}
        \cup {[k \in {"teams"} |-> <<list>>] :
                 list \in {<<>>} \cup {<<a>> : a \in AssignmentDicts}}

\* ScenarioDisplay.format_scenario_summary(scenario): the lines of the team
\* summaries (the title before them and the pros and cons after them are
\* read with .get too and stand in no relation to the assignments).
format_scenario_summary(scenario) ==
    LET teams == Get(scenario, "teams", <<>>)
        team(team_id) ==
            <<[kind |-> "team", team_id |-> team_id]>>
                \o (IF teams[team_id] = <<>>
                    THEN <<[kind |-> "no_assignment"]>>
                    ELSE format_assignments(teams[team_id]))
    IN  IF teams = <<>>
        THEN <<[kind |-> "no_teams"]>>
        ELSE team(1)

\* TeamAssignment(...) is called.
ConstructTeamAssignment ==
    /\ pc = "construct"
    /\ \E kwargs \in TeamAssignmentKwargs :
          vcall' = [fn |-> "TeamAssignment", args |-> kwargs,
                    out |-> TeamAssignment(kwargs)]
    /\ UNCHANGED <<app, tables, calls, locals, est, scored>>
    /\ pc' = "constructed"

\* ScenarioDisplay.format_scenario_summary(scenario) is called.
CallFormatScenarioSummary ==
    /\ pc = "construct"
    /\ \E scenario \in Scenarios :
          vcall' = [fn |-> "format_scenario_summary", args |-> scenario,
                    out |-> format_scenario_summary(scenario)]
    /\ UNCHANGED <<app, tables, calls, locals, est, scored>>
    /\ pc' = "constructed"

\* -------------------------------------------------------------------- parser

\* Most data rows a CSV file of the model has.
MaxRows == 2

\* An exception of a named class.
RaisesOf(type) == [exc |-> TRUE, val |-> None, type |-> type]

\* The instant a cell of a time column names, when it has the format.
TimeCell(at) == [type |-> "str", well_formed |-> TRUE, at |-> at]

\* The data rows of a reservations file, as row.to_dict() hands them to
\* Reservation: two start times that build (and tell the rows apart), one
\* that does not, a min_capacity that builds and one that does not.
ReservationRows ==
    [start_time : {TimeCell(0), TimeCell(1),
                   [type |-> "str", well_formed |-> FALSE]},
     end_time : {TimeCell(MaxTime)},
     min_capacity : {0, 1},
     optimal_capacity : {MaxCapacity},
     max_capacity : {MaxCapacity}]

\* The data rows of a users file.
UserRows ==
    [available_from : {TimeCell(0), TimeCell(1),
                       [type |-> "str", well_formed |-> FALSE]},
     available_until : {TimeCell(MaxTime)},
     horror_position : {"tank", "other"}]

\* Every list of at most n of the rows.
RowLists(rows, n) == UNION {[1..m -> rows] : m \in 0..n}

\* What pd.read_csv(file) makes of a file: pd.errors.EmptyDataError for one
\* without content, another exception for one it cannot read, or a frame with
\* the file's columns (some required one missing, or none) and data rows.
CsvFiles(rows) ==
    {[read |-> "EmptyDataError", missing_columns |-> FALSE, rows |-> <<>>],
     [read |-> "ParserError", missing_columns |-> FALSE, rows |-> <<>>]}
        \cup [read : {"frame"}, missing_columns : BOOLEAN,
              rows : RowLists(rows, MaxRows)]

\* The model class a parser builds its rows with.
Build(model, row) == IF model = "Reservation" THEN Reservation(row) ELSE User(row)

\* The for loop over df.iterrows(): the objects that were built, in order.
RECURSIVE built(_, _)
built(model, rows) ==
    IF rows = <<>> THEN <<>>
    ELSE (IF Build(model, Head(rows)).exc
          THEN <<>>
          ELSE <<Build(model, Head(rows)).val>>) \o built(model, Tail(rows))

\* The for loop over df.iterrows(): the line numbers (from 2) of the rows
\* whose construction raised.
RECURSIVE errors(_, _, _)
errors(model, rows, line_num) ==
    IF rows = <<>> THEN <<>>
    ELSE (IF Build(model, Head(rows)).exc THEN <<line_num>> ELSE <<>>)
             \o errors(model, Tail(rows), line_num + 1)

\* Variant: `if errors: raise` left out, the rows that built are returned.
parse_partial(model, file) ==
    IF file.read = "EmptyDataError" THEN RaisesOf("ValueError")
    ELSE IF file.read # "frame" THEN RaisesOf("ValueError")
    ELSE IF file.missing_columns THEN RaisesOf("ValueError")
    ELSE Returns(built(model, file.rows))

\* The body parse_reservations and parse_users share, lines 22-51 and 67-96:
\* every exception of the try block leaves as a ValueError.
parse(model, file) ==
    IF file.read = "EmptyDataError" THEN RaisesOf("ValueError")
    ELSE IF file.read # "frame" THEN RaisesOf("ValueError")
    ELSE IF file.missing_columns THEN RaisesOf("ValueError")
    ELSE IF errors(model, file.rows, 2) # <<>> THEN RaisesOf("ValueError")
    ELSE Returns(built(model, file.rows))

\* parser.parse_reservations
parse_reservations(file) == parse("Reservation", file)

\* parser.parse_users
parse_users(file) == parse("User", file)

\* parse_reservations(file) is called.
CallParseReservations ==
    /\ pc = "construct"
    /\ \E file \in CsvFiles(ReservationRows) :
          vcall' = [fn |-> "parse_reservations", args |-> file,
                    out |-> parse_reservations(file)]
    /\ UNCHANGED <<app, tables, calls, locals, est, scored>>
    /\ pc' = "constructed"

\* parse_users(file) is called.
CallParseUsers ==
    /\ pc = "construct"
    /\ \E file \in CsvFiles(UserRows) :
          vcall' = [fn |-> "parse_users", args |-> file,
                    out |-> parse_users(file)]
    /\ UNCHANGED <<app, tables, calls, locals, est, scored>>
    /\ pc' = "constructed"

\* -------------------------------------------------------------- claude_agent

\* max_retries = 3, line 56.
max_retries == 3

\* retry_delay = 2  # seconds, line 57.
retry_delay == 2

\* What json.loads can be handed between the fences: text that is no JSON, a
\* JSON array, a JSON object without the key "scenarios", and objects whose
\* "scenarios" is a list of none, one or two scenarios.
JSON_TEXT ==
    [no_json    |-> RaisesOf("JSONDecodeError"),
     array      |-> Returns([type |-> "list", data |-> <<>>]),
     object     |-> Returns([type |-> "dict", data |-> <<>>]),
     scenarios0 |-> Returns([type |-> "dict", data |-> [scenarios |-> <<>>]]),
     scenarios1 |-> Returns([type |-> "dict",
                             data |-> [scenarios |-> <<"balanced">>]]),
     scenarios2 |-> Returns([type |-> "dict",
                             data |-> [scenarios |-> <<"fast", "balanced">>]])]

\* json.loads(text): the text has to be one JSON text and nothing else.
json_loads(text) ==
    IF Len(text) = 1 /\ text[1] \in DOMAIN JSON_TEXT
    THEN JSON_TEXT[text[1]]
    ELSE RaisesOf("JSONDecodeError")

\* The texts of the first content block: a sequence of pieces, each a fence
\* (three backticks, "fence"), a fence followed by json ("fence_json"), a
\* JSON text or other words.
Texts ==
    UNION {{<<body>>, <<"fence_json", body, "fence">>,
            <<"words", "fence_json", body, "fence", "words">>,
            <<"fence", body, "fence">>, <<"words", body>>} :
              body \in DOMAIN JSON_TEXT}

\* What self.client.messages.create(...) does: it raises, or it answers with
\* no content block, with a first block that has no text, or with a text.
ApiResponses ==
    {[kind |-> "api_error"], [kind |-> "no_content"], [kind |-> "no_text"]}
        \cup [kind : {"text"}, text : Texts]

\* The position of the first piece equal to `piece`, 0 when there is none.
Find(text, piece) ==
    IF \E k \in 1..Len(text) : text[k] = piece
    THEN CHOOSE k \in 1..Len(text) :
             text[k] = piece /\ \A m \in 1..(k - 1) : text[m] # piece
    ELSE 0

\* text.split(piece)[1], for a text that has the piece.
AfterFirst(text, piece) == SubSeq(text, Find(text, piece) + 1, Len(text))

\* text.split(fence)[0]: a fence of either kind ends the part.
BeforeFence(text) ==
    LET k == Find(text, "fence")
        m == Find(text, "fence_json")
        cut == IF k = 0 THEN m ELSE IF m = 0 THEN k ELSE IF k < m THEN k ELSE m
    IN  IF cut = 0 THEN text ELSE SubSeq(text, 1, cut - 1)

\* Lines 177-183: the part of the text json.loads is handed.
JsonPart(text) ==
    IF Find(text, "fence_json") # 0
    THEN BeforeFence(AfterFirst(text, "fence_json"))
    ELSE IF Find(text, "fence") # 0
    THEN BeforeFence(AfterFirst(text, "fence"))
    ELSE text

\* ClaudeScheduler._parse_scenarios(response_text): json.loads of the part,
\* its JSONDecodeError raised again as ValueError, then
\* data.get("scenarios", []), which a list has not.
_parse_scenarios(response_text) ==
    LET data == json_loads(JsonPart(response_text))
    IN  IF data.exc THEN RaisesOf("ValueError")
        ELSE IF data.val.type # "dict" THEN RaisesOf("AttributeError")
        ELSE Returns(Get(data.val.data, "scenarios", <<>>))

\* `if scenarios:`, line 77.
IsTruthy(scenarios) == scenarios # <<>>

\* The try block of one attempt, lines 60-83: what it returns or raises.
try_block(response) ==
    IF response.kind = "api_error" THEN RaisesOf("APIError")
    ELSE IF response.kind = "no_content" THEN RaisesOf("IndexError")
    ELSE IF response.kind = "no_text" THEN RaisesOf("ValueError")
    ELSE LET scenarios == _parse_scenarios(response.text)
         IN  IF scenarios.exc THEN scenarios
             ELSE IF IsTruthy(scenarios.val) THEN scenarios
             ELSE RaisesOf("ValueError")

\* Variant: `attempt < max_retries`, the last attempt sleeps as well.
HasRetryAlways(attempt) == attempt < max_retries

\* `if attempt < max_retries - 1`, line 86.
HasRetry(attempt) == attempt < max_retries - 1

\* generate_scenarios is entered: the prompt is built, lines 43-57.
CallGenerateScenarios ==
    /\ pc = "agent"
    /\ agent' = [attempt |-> 0, retry_delay |-> retry_delay, slept |-> <<>>,
                 responses |-> <<>>, out |-> None]
    /\ pc' = "attempt"
    /\ UNCHANGED <<rebuild, session, tables, calls, locals, est, scheduler>>

\* One pass of `for attempt in range(max_retries)`, lines 59-94, with the
\* service's answer to its request; after the last pass, line 97.
Attempt ==
    /\ pc = "attempt"
    /\ agent.attempt < max_retries
    /\ \E response \in ApiResponses :
          LET out  == try_block(response)
              done == [agent EXCEPT !.responses = Append(@, response)]
          IN  IF ~out.exc
              THEN /\ agent' = [done EXCEPT !.out = Some(out)]
                   /\ pc' = "generated"
              ELSE IF HasRetry(agent.attempt)
              THEN LET next == [done EXCEPT
                                  !.slept = Append(@, agent.retry_delay),
                                  !.retry_delay = @ * 2,
                                  !.attempt = @ + 1]
                   IN  IF next.attempt < max_retries
                       THEN agent' = next /\ pc' = pc
                       ELSE /\ agent' = [next EXCEPT !.out = Some(Returns(<<>>))]
                            /\ pc' = "generated"
              ELSE /\ agent' = [done EXCEPT !.out = Some(out)]
                   /\ pc' = "generate_raised"
    /\ UNCHANGED <<rebuild, session, tables, calls, locals, est, scheduler>>

\* ---------------------------------------------------------------------- main

\* Most clicks on the generate button in a run of the model.
MaxClicks == 2

\* What starts a run of the script: a click on the generate button (line
\* 209), a click on the clear button (line 341), or anything else (another
\* widget, a page load, st.rerun()).  At most one button is True in a run.
Events == {"generate_click", "clear_click", "other"}

\* What parse_reservations and parse_users make of the edited tables, lines
\* 211-238: they raise, or they give lists, one of which may be empty.
Parses == {"raised", "empty", "data"}

\* Variant: the flag is left as it is when the generation starts.
ResetFlagForgotten(state) == state

\* st.session_state.should_generate_schedule = False  # Reset flag, line 259.
ResetFlag(state) == [state EXCEPT !.should_generate_schedule = FALSE]

\* Streamlit runs the script from the top: lines 13-207, up to the button.
Rerun ==
    /\ pc = "app_idle"
    /\ \E event \in Events :
          /\ event = "generate_click" => session.clicks < MaxClicks
          /\ event = "clear_click" => session.generated_scenarios # None
          /\ session' = [session EXCEPT
                            !.event = event,
                            !.clicks = IF event = "generate_click"
                                       THEN @ + 1 ELSE @]
    /\ pc' = "app_button"
    /\ UNCHANGED <<rebuild, agent, tables, calls, locals, est, scheduler>>

\* `if st.button(...)`, lines 209-247: the edited tables are parsed and, when
\* that did not raise, stored with the flag set.
Button ==
    /\ pc = "app_button"
    /\ IF session.event = "generate_click"
       THEN \E parsed \in Parses :
               session' = IF parsed = "raised"
                          THEN session
                          ELSE [session EXCEPT
                                   !.parsed_data = parsed,
                                   !.should_generate_schedule = TRUE]
       ELSE session' = session
    /\ pc' = "app_handle"
    /\ UNCHANGED <<rebuild, agent, tables, calls, locals, est, scheduler>>

\* `if st.session_state.get("should_generate_schedule", False)`, lines
\* 258-265: the flag is reset and the stored lists are read.
Handle ==
    /\ pc = "app_handle"
    /\ IF session.should_generate_schedule
       THEN IF session.parsed_data # "data"
            THEN /\ session' = ResetFlag(session)
                 /\ pc' = "app_display"
            ELSE /\ session' = [ResetFlag(session) EXCEPT !.attempts = @ + 1]
                 /\ pc' = "app_build"
       ELSE /\ session' = session
            /\ pc' = "app_display"
    /\ UNCHANGED <<rebuild, agent, tables, calls, locals, est, scheduler>>

\* Step 1, lines 277-300: the travel matrix is built, or that raises and the
\* outer except shows the error.
BuildTravelMatrix ==
    /\ pc = "app_build"
    /\ \E raised \in BOOLEAN :
          pc' = IF raised THEN "app_display" ELSE "app_optimize"
    /\ UNCHANGED <<app, tables, calls, locals, est, scheduler>>

\* Step 2, lines 302-330: the scenarios are generated and stored, or that
\* raises and the outer except shows the error.
Optimize ==
    /\ pc = "app_optimize"
    /\ \E raised \in BOOLEAN :
          session' = IF raised
                     THEN session
                     ELSE [session EXCEPT
                              !.generated_scenarios = Some("scenarios")]
    /\ pc' = "app_display"
    /\ UNCHANGED <<rebuild, agent, tables, calls, locals, est, scheduler>>

\* Lines 333-344 and the rest of the script: the stored scenarios are shown;
\* the clear button forgets them and asks for another run.
Display ==
    /\ pc = "app_display"
    /\ session' = IF /\ session.generated_scenarios # None
                     /\ session.event = "clear_click"
                  THEN [session EXCEPT !.generated_scenarios = None]
                  ELSE session
    /\ pc' = "app_idle"
    /\ UNCHANGED <<rebuild, agent, tables, calls, locals, est, scheduler>>

\* The user does something while the script runs: Streamlit stops the run
\* where it is, keeps st.session_state and runs the script again.
Interrupt ==
    /\ pc \in {"app_button", "app_handle", "app_build", "app_optimize",
               "app_display"}
    /\ pc' = "app_idle"
    /\ UNCHANGED <<app, tables, calls, locals, est, scheduler>>

\* ------------------------------------------------------------ specifications

\* A process that has made no call: both tables are empty.
Fresh ==
    /\ geoCache = <<>>
    /\ routeCache = <<>>
    /\ geoSince = <<>>
    /\ routeSince = <<>>
    /\ geoSeen = {}
    /\ routeSeen = {}
    /\ calls = <<>>
    /\ self = "client1"
    /\ addresses = <<>>
    /\ progress_callback = "none"
    /\ i = 1
    /\ j = 1
    /\ current = 0
    /\ total_pairs = 0
    /\ matrix = <<>>
    /\ cbLog = <<>>
    /\ returned = <<>>
    /\ visited = <<>>
    /\ vcall = [fn |-> "none"]
    /\ scored = None
    /\ rebuild = [n |-> 1, first |-> None]
    /\ agent = [attempt |-> 0, retry_delay |-> retry_delay, slept |-> <<>>,
                responses |-> <<>>, out |-> None]
    /\ session = [should_generate_schedule |-> FALSE, parsed_data |-> "none",
                  generated_scenarios |-> None, event |-> "other",
                  clicks |-> 0, attempts |-> 0]

Init ==
    /\ Fresh
    /\ pc = "idle"
    /\ est = [start |-> "empty", end |-> "empty", val |-> None]

Next == CallMatrix \/ LoopDiagonal \/ LoopPair \/ ReturnMatrix

\* One call of get_travel_time_matrix in a fresh process.
Spec == Init /\ [][Next]_vars

\* The interpreter keeps running the call it is in.
FairSpec == Spec /\ WF_vars(Next)

CacheNext == CallGeocode \/ CallGetTravelTime

\* Any sequence of geocode and get_travel_time calls on the process's clients.
CacheSpec == Init /\ [][CacheNext]_vars

EstimateInit ==
    /\ Fresh
    /\ pc = "estimate"
    /\ est \in [start : Addresses, end : Addresses, val : {None}]

EstimateNext == CallEstimate

\* One call of _estimate_travel_time on any two of the model's addresses.
EstimateSpec == EstimateInit /\ [][EstimateNext]_vars

ValidatorNext ==
    \/ CallIsUserAvailable
    \/ CallIsCapacityValid
    \/ CallIsTravelTimeFeasible
    \/ CallNeedsHorrorTank

\* Any sequence of calls of the ScheduleValidator predicates.
ValidatorSpec == Init /\ [][ValidatorNext]_vars

ScoreInit ==
    /\ Fresh
    /\ pc = "score"
    /\ est = [start |-> "empty", end |-> "empty", val |-> None]

ScoreNext == CallBalanceScore \/ CallBalanceScoreAgain

\* calculate_balance_score called on any schedule of the model and then on
\* any redistribution of it.
ScoreSpec == ScoreInit /\ [][ScoreNext]_vars

ModelNext ==
    \/ ConstructReservation
    \/ ConstructUser
    \/ ConstructTeamAssignment
    \/ CallFormatScenarioSummary
    \/ CallParseReservations
    \/ CallParseUsers

ModelInit ==
    /\ Fresh
    /\ pc = "construct"
    /\ est = [start |-> "empty", end |-> "empty", val |-> None]

\* One construction of a model of models.py, or one reading of a scenario,
\* on any arguments of the model.
ModelSpec == ModelInit /\ [][ModelNext]_vars

AgentInit ==
    /\ Fresh
    /\ pc = "agent"
    /\ est = [start |-> "empty", end |-> "empty", val |-> None]

AgentNext == CallGenerateScenarios \/ Attempt

\* One call of ClaudeScheduler.generate_scenarios, the service answering each
\* request in any way.
AgentSpec == AgentInit /\ [][AgentNext]_vars

RebuildNext == Next \/ CallMatrixAgain

\* Two calls of get_travel_time_matrix in one process, the second on the
\* client and the list of the first.
RebuildSpec == Init /\ [][RebuildNext]_vars

AppInit ==
    /\ Fresh
    /\ pc = "app_idle"
    /\ est = [start |-> "empty", end |-> "empty", val |-> None]

AppNext ==
    \/ Rerun
    \/ Button
    \/ Handle
    \/ BuildTravelMatrix
    \/ Optimize
    \/ Display
    \/ Interrupt

\* A browser session of main.py: any sequence of script runs, each started
\* by a click or by something else, each run to its end or stopped on the way.
AppSpec == AppInit /\ [][AppNext]_vars

\* ================================================================== claims

Range(list) == {list[k] : k \in 1..Len(list)}

Distinct(list) == \A m, n \in 1..Len(list) : list[m] = list[n] => m = n

\* The positions in DISTRICTS of the labels an address contains.
LabelsIn(address) ==
    {k \in 1..Len(DISTRICTS) : Contains(DISTRICTS[k], ADDRESS_TEXT[address])}

\* The label, among those an address contains, that is last in list order.
LastLabel(address) ==
    IF LabelsIn(address) = {} THEN 0
    ELSE CHOOSE k \in LabelsIn(address) : \A m \in LabelsIn(address) : m <= k

\* The label, among those an address contains, that is first in list order.
FirstLabel(address) ==
    IF LabelsIn(address) = {} THEN 0
    ELSE CHOOSE k \in LabelsIn(address) : \A m \in LabelsIn(address) : k <= m

\* C1: the matrix get_travel_time_matrix returns maps (A, A) to 0 for every
\* address A of the list, also when A occurs more than once in it and
\* whatever the service answered.
C1_DiagonalZero ==
    pc = "returned" =>
        \A a \in Range(addresses) :
            <<a, a>> \in DOMAIN matrix /\ matrix[<<a, a>>] = 0

\* C1 witness: a list that names the same address twice has been processed,
\* and get_travel_time(A, A), called for the two positions, returned None, so
\* that an estimate was written to (A, A) on the way.
C1_Witness ==
    /\ pc = "returned"
    /\ Len(addresses) = 2
    /\ addresses[1] = addresses[2]
    /\ <<addresses[1], addresses[1]>> \in DOMAIN returned
    /\ returned[<<addresses[1], addresses[1]>>] = None

\* C2: for a list of n distinct addresses the returned matrix has exactly
\* n*n entries, its keys being exactly the ordered pairs of input addresses.
C2_CompleteMatrix ==
    (pc = "returned" /\ Distinct(addresses)) =>
        /\ DOMAIN matrix = Range(addresses) \X Range(addresses)
        /\ Cardinality(DOMAIN matrix) = Len(addresses) * Len(addresses)

\* C2 witness: a matrix of two distinct addresses was returned after a call
\* of get_travel_time gave None.
C2_Witness ==
    /\ pc = "returned"
    /\ Len(addresses) = 2
    /\ Distinct(addresses)
    /\ \E p \in DOMAIN returned : returned[p] = None

\* C3: whatever the service does, get_travel_time_matrix called with no
\* callback or with a callback that returns normally never raises, and it
\* terminates: a call that is in its loops eventually returns.
C3_ReturnsWithoutRaising ==
    /\ [](pc = "raised" => progress_callback = "raising")
    /\ (pc = "loop" /\ progress_callback # "raising") ~> (pc = "returned")

\* C3 witness: the call returned although no get_travel_time call of it
\* produced a value.
C3_Witness ==
    /\ pc = "returned"
    /\ progress_callback # "raising"
    /\ Len(addresses) = 2
    /\ Cardinality(DOMAIN returned) = 2
    /\ \A p \in DOMAIN returned : returned[p] = None

\* C4: for every ordered pair (A, B) of distinct input addresses the entry is
\* the value get_travel_time(A, B) returned when it returned one, 0 minutes
\* included, and _estimate_travel_time(A, B) when it returned None.
C4_EntryIsValueOrEstimate ==
    \A p \in DOMAIN returned :
        p[1] # p[2] =>
            /\ p \in DOMAIN matrix
            /\ returned[p] # None => matrix[p] = returned[p][1]
            /\ returned[p] = None =>
                   matrix[p] = _estimate_travel_time(p[1], p[2])

\* C4 witness: a returned matrix of two distinct addresses, one direction
\* answered with 0 minutes and the other not answered.
C4_Witness ==
    /\ pc = "returned"
    /\ Len(addresses) = 2
    /\ addresses[1] # addresses[2]
    /\ returned[<<addresses[1], addresses[2]>>] = Some(0)
    /\ returned[<<addresses[2], addresses[1]>>] = None

\* C5: for n distinct addresses and a callback, the callback is invoked
\* exactly n*(n-1) times, the k-th time with (k, n*(n-1)); never for a
\* diagonal pair, so never at all when n <= 1.
C5_CallbackSequence ==
    (pc = "returned" /\ progress_callback = "normal" /\ Distinct(addresses)) =>
        LET n == Len(addresses)
        IN  /\ Len(cbLog) = n * (n - 1)
            /\ \A k \in 1..Len(cbLog) : cbLog[k] = <<k, n * (n - 1)>>
            /\ n <= 1 => cbLog = <<>>

\* C5 witness: a build of two distinct addresses with a callback returned.
C5_Witness ==
    /\ pc = "returned"
    /\ progress_callback = "normal"
    /\ Len(addresses) = 2
    /\ Distinct(addresses)
    /\ Len(cbLog) = 2

C7_EstimateValues ==
    pc = "estimated" =>
        /\ est.val # None
        /\ est.val[1] = IF /\ LastLabel(est.start) # 0
                           /\ LastLabel(est.start) = LastLabel(est.end)
                        THEN 25 ELSE 45
        /\ (LabelsIn(est.start) = {} \/ LabelsIn(est.end) = {}) => est.val[1] = 45
        /\ est.val[1] = 25 => LabelsIn(est.start) \cap LabelsIn(est.end) # {}

\* C7 witness: two different addresses of one district were estimated at 25.
C7_Witness ==
    /\ pc = "estimated"
    /\ est.start # est.end
    /\ est.val = Some(25)

\* C8 as claimed: an address that contains several labels resolves to the one
\* that comes first in the list, and the comparison uses that first label.
C8_FirstLabelWins ==
    (/\ pc = "estimated"
     /\ (Cardinality(LabelsIn(est.start)) > 1 \/ Cardinality(LabelsIn(est.end)) > 1))
    => est.val[1] = IF /\ FirstLabel(est.start) # 0
                       /\ FirstLabel(est.start) = FirstLabel(est.end)
                    THEN 25 ELSE 45

\* C8 as amended: an address that contains several labels resolves to the one
\* that comes last in the list (each later match in the loop overwrites the
\* earlier one), and the comparison uses that last label.
C8_LastLabelWins ==
    (/\ pc = "estimated"
     /\ (Cardinality(LabelsIn(est.start)) > 1 \/ Cardinality(LabelsIn(est.end)) > 1))
    => est.val[1] = IF /\ LastLabel(est.start) # 0
                       /\ LastLabel(est.start) = LastLabel(est.end)
                    THEN 25 ELSE 45

\* C8 witness: 마포구 강남구 against an address of 마포구 alone: 25, because
\* the first resolves to 마포구, the later label of the list.
C8_Witness ==
    /\ pc = "estimated"
    /\ est.start = "mapo_gangnam"
    /\ est.end = "mapo_hongik"
    /\ est.val = Some(25)

\* C9: get_travel_time never raises; it returns None when geocoding of either
\* endpoint gives no coordinate (and then sends no directions request), when
\* the directions answer has no usable route and when a request or the
\* reading of its answer fails; it returns an integer only when both
\* geocodes and the directions request succeeded.  geocode likewise never
\* raises and gives None on every failure.
C9_NoneOnEveryFailure ==
    \A k \in 1..Len(calls) :
        LET e == calls[k]
        IN  /\ ~e.out.exc
            /\ (e.fn = "geocode" /\ e.response \in {"error", "not_ok"})
                   => e.out.val = None
            /\ (e.fn = "get_travel_time" /\ ~e.hit) =>
                   /\ (e.start_coords = None \/ e.end_coords = None)
                          => (e.out.val = None /\ e.response = "not_sent")
                   /\ e.response \in {"error", "no_route"} => e.out.val = None
                   /\ e.out.val # None =>
                          /\ e.start_coords # None
                          /\ e.end_coords # None
                          /\ e.response = "ok"

\* C9 witness: both endpoints were geocoded and the directions request failed
\* with an exception; the call returned None.
C9_Witness ==
    \E k \in 1..Len(calls) :
        /\ calls[k].fn = "get_travel_time"
        /\ calls[k].start_coords # None
        /\ calls[k].end_coords # None
        /\ calls[k].response = "error"
        /\ calls[k].out = Returns(None)

C11_FloorMinutes ==
    \A k \in 1..Len(calls) :
        (calls[k].fn = "get_travel_time" /\ calls[k].duration # None) =>
            LET d == calls[k].duration[1]
                v == calls[k].out.val
            IN  /\ d >= 0
                /\ ~calls[k].out.exc
                /\ v # None
                /\ v[1] \in Nat
                /\ 60000 * v[1] <= d
                /\ d < 60000 * (v[1] + 1)
                /\ d < 60000 => v[1] = 0

\* C11 witness: a route of 119999 ms, one millisecond short of two minutes,
\* was returned as 1 minute.
C11_Witness ==
    \E k \in 1..Len(calls) :
        /\ calls[k].fn = "get_travel_time"
        /\ calls[k].duration = Some(119999)
        /\ calls[k].out = Returns(Some(1))

\* C12: no retry.  One get_travel_time call runs geocode at most once per
\* endpoint, sends at most one geocode request per endpoint address and at
\* most one directions request, whatever the service answers; and
\* get_travel_time_matrix calls get_travel_time at most once per ordered pair
\* of list positions.
C12_NoRetry ==
    /\ \A k \in 1..Len(calls) :
          calls[k].fn = "get_travel_time" =>
              LET geo == {m \in 1..(k - 1) : calls[m].fn = "geocode"}
              IN  /\ Cardinality(geo) <= 2
                  /\ \A a \in Range(calls[k].args) :
                         Cardinality({m \in geo : /\ calls[m].args = <<a>>
                                                  /\ calls[m].requests > 0}) <= 1
                  /\ \A m \in geo : calls[m].requests <= 1
                  /\ calls[k].routes <= 1
                  /\ calls[k].requests <= 3
    /\ Cardinality({m \in 1..Len(calls) : calls[m].fn = "get_travel_time"}) <= 1
    /\ \A m, n \in 1..Len(visited) : visited[m] = visited[n] => m = n

\* C12 witness: a list of two addresses, the first pair's call came back with
\* None after three requests could be sent, the second pair's call had its
\* directions request fail too, and each position pair was visited once.
C12_Witness ==
    /\ visited = <<<<1, 2>>, <<2, 1>>>>
    /\ returned[<<addresses[1], addresses[2]>>] = None
    /\ \E k \in 1..Len(calls) :
          /\ calls[k].fn = "get_travel_time"
          /\ calls[k].response = "error"
          /\ calls[k].routes = 1
          /\ calls[k].out = Returns(None)

\* C13 as claimed: for any input list, get_travel_time is never called with
\* an origin address equal to the destination address, and an entry whose two
\* addresses are equal is written as 0 with no request sent for it.
C13_NeverSameAddress ==
    /\ \A k \in 1..Len(calls) :
          calls[k].fn = "get_travel_time" => calls[k].args[1] # calls[k].args[2]
    /\ \A p \in DOMAIN returned : p[1] # p[2]
    /\ \A p \in DOMAIN matrix : p[1] = p[2] => matrix[p] = 0

\* C13 as amended: the same for any input list of pairwise distinct
\* addresses (the branch compares the positions i and j, so a list that
\* names an address twice has get_travel_time called on it with itself).
C13_NeverSameAddressInDistinctList ==
    Distinct(addresses) =>
        /\ \A k \in 1..Len(calls) :
              calls[k].fn = "get_travel_time" =>
                  calls[k].args[1] # calls[k].args[2]
        /\ \A p \in DOMAIN returned : p[1] # p[2]
        /\ \A p \in DOMAIN matrix : p[1] = p[2] => matrix[p] = 0
        /\ \A k \in 1..Len(visited) : visited[k][1] # visited[k][2]

\* C13 witness: in a list of two distinct addresses the second diagonal entry
\* has just been written, by a pass that made no call, after both directed
\* pairs were asked for.
C13_Witness ==
    /\ pc = "loop"
    /\ Len(addresses) = 2
    /\ Distinct(addresses)
    /\ Len(visited) = 2
    /\ <<addresses[2], addresses[2]>> \in DOMAIN matrix
    /\ matrix[<<addresses[2], addresses[2]>>] = 0
    /\ calls = <<>>

\* C14: is_user_available(user, start, end) is true if and only if
\* user.available_from <= start and user.available_until >= end, both ends
\* inclusive: a slot from exactly available_from to exactly available_until
\* is accepted.
C14_AvailabilityInclusive ==
    vcall.fn = "is_user_available" =>
        LET user == vcall.args.user
            start == vcall.args.start_time
            end == vcall.args.end_time
        IN  /\ vcall.out <=> (user.available_from <= start
                                 /\ user.available_until >= end)
            /\ (start = user.available_from /\ end = user.available_until)
                   => vcall.out
            /\ (start < user.available_from \/ end > user.available_until)
                   => ~vcall.out

\* C14 witness: a slot that is the whole of a window of positive length was
\* accepted.
C14_Witness ==
    /\ vcall.fn = "is_user_available"
    /\ vcall.args.user.available_from < vcall.args.user.available_until
    /\ vcall.args.start_time = vcall.args.user.available_from
    /\ vcall.args.end_time = vcall.args.user.available_until
    /\ vcall.out

C16_TravelGap ==
    vcall.fn = "is_travel_time_feasible" =>
        LET seconds == vcall.args.next_reservation.start_time
                           - vcall.args.prev_reservation.end_time
            t == vcall.args.travel_time_minutes
        IN  /\ vcall.out <=> (seconds >= 60 * t)
            /\ (t = 15 /\ seconds = 15 * 60) => vcall.out
            /\ (t = 15 /\ seconds \in {14 * 60, 0}) => ~vcall.out
            /\ (t >= 0 /\ seconds < 0) => ~vcall.out

\* C16 witness: 15 minutes of travel and a gap one second short of 15
\* minutes: not feasible.
C16_Witness ==
    /\ vcall.fn = "is_travel_time_feasible"
    /\ vcall.args.travel_time_minutes = 15
    /\ vcall.args.next_reservation.start_time
           - vcall.args.prev_reservation.end_time = 899
    /\ ~vcall.out

\* The theme contains the two characters of 공포 next to each other.
HasMarker(theme) ==
    \E k \in 1..(Len(THEME_TEXT[theme]) - 1) :
        THEME_TEXT[theme][k] = "gong" /\ THEME_TEXT[theme][k + 1] = "po"

\* C17: needs_horror_tank(reservation) is true if and only if the
\* reservation's theme contains 공포 as a substring; the result is fixed by
\* the theme, whichever members the assignment has (with or without a tank).
C17_HorrorMarker ==
    vcall.fn = "needs_horror_tank" =>
        (vcall.out <=> HasMarker(vcall.args.reservation.theme))

\* C17 witness: a theme with the marker at its end needs a tank although the
\* assignment has no tank among its members.
C17_Witness ==
    /\ vcall.fn = "needs_horror_tank"
    /\ vcall.args.reservation.theme = "simri_gongpo"
    /\ "tank" \notin vcall.args.members
    /\ vcall.out

\* C18: calculate_balance_score returns 0.0 for a schedule with no teams, 1.0
\* when every team has zero assignments, and otherwise
\* max(0, 1 - variance/mean^2) of the per-team counts with the population
\* mean and variance, that is, with n teams, S the sum of the counts and Q
\* the sum of their squares, max(0, 2*S*S - n*Q) / (S*S); counts {2, 2, 2}
\* score 1.0 and counts {4, 0} score 0.0.
C18_BalanceScoreValue ==
    vcall.fn = "calculate_balance_score" =>
        LET t == Tally(vcall)
            counts == AssignmentCounts(vcall.args.schedule)
            above == 2 * t.total * t.total - t.teams * t.squares
        IN  /\ t.teams = 0 => vcall.out = <<0, 1>>
            /\ (t.teams > 0 /\ t.total = 0) => vcall.out = <<1, 1>>
            /\ (t.teams > 0 /\ t.total > 0) =>
                   vcall.out[1] * t.total * t.total
                       = vcall.out[2] * (IF above > 0 THEN above ELSE 0)
            /\ counts = <<2, 2, 2>> => vcall.out = <<1, 1>>
            /\ counts \in {<<4, 0>>, <<0, 4>>} => vcall.out = <<0, 1>>

\* C18 witness: counts {2, 1} scored 8/9 (mean 3/2, variance 1/4).
C18_Witness ==
    /\ vcall.fn = "calculate_balance_score"
    /\ AssignmentCounts(vcall.args.schedule) = <<2, 1>>
    /\ vcall.out = <<8, 9>>

\* C19: for every schedule, whatever the number of teams and of assignments
\* per team, calculate_balance_score returns s with 0 <= s <= 1.
C19_ScoreInUnitInterval ==
    vcall.fn = "calculate_balance_score" =>
        /\ vcall.out[2] > 0
        /\ 0 <= vcall.out[1]
        /\ vcall.out[1] <= vcall.out[2]

\* C19 witness: counts {1, 0, 0}, whose variance is twice the square of
\* their mean, scored 0.
C19_Witness ==
    /\ vcall.fn = "calculate_balance_score"
    /\ AssignmentCounts(vcall.args.schedule) = <<1, 0, 0>>
    /\ vcall.out = <<0, 1>>

\* C20: for a schedule with at least one team the score is 1.0 if and only
\* if all teams have the same number of assignments; and of two schedules
\* with the same number of teams and the same total number of assignments
\* the one whose counts have the larger variance (the larger sum of squares)
\* never gets the larger score.
C20_EvenIffOneAndMonotone ==
    vcall.fn = "calculate_balance_score" =>
        LET t == Tally(vcall)
            counts == AssignmentCounts(vcall.args.schedule)
        IN  /\ t.teams >= 1 =>
                   (vcall.out = <<1, 1>>
                       <=> \A m, n \in DOMAIN counts : counts[m] = counts[n])
            /\ (/\ scored # None
                 /\ scored[1].teams = t.teams
                 /\ scored[1].total = t.total) =>
                   /\ scored[1].squares > t.squares
                          => FracLe(scored[1].out, t.out)
                   /\ scored[1].squares < t.squares
                          => FracLe(t.out, scored[1].out)

\* C20 witness: of two schedules of two teams and four assignments, the
\* first with counts {3, 1} scored more than the second with counts {4, 0}
\* and less than 1.
C20_Witness ==
    /\ vcall.fn = "calculate_balance_score"
    /\ scored # None
    /\ AssignmentCounts(vcall.args.schedule) = <<4, 0>>
    /\ scored[1].teams = 2
    /\ scored[1].total = 4
    /\ scored[1].squares = 10
    /\ ~FracLe(scored[1].out, vcall.out)
    /\ scored[1].out # <<1, 1>>

\* C21: a Reservation whose end time is not strictly after its start time is
\* not constructed: every Reservation object has end_time > start_time.
C21_EndAfterStart ==
    (vcall.fn = "Reservation" /\ ~vcall.out.exc) =>
        vcall.out.val.end_time > vcall.out.val.start_time

\* C22: a Reservation is constructed only when
\* 0 < min_capacity <= optimal_capacity <= max_capacity.
C22_CapacityOrdered ==
    (vcall.fn = "Reservation" /\ ~vcall.out.exc) =>
        /\ 0 < vcall.out.val.min_capacity
        /\ vcall.out.val.min_capacity <= vcall.out.val.optimal_capacity
        /\ vcall.out.val.optimal_capacity <= vcall.out.val.max_capacity

\* C23: an assignment that leaves out travel_time_from_previous or members is
\* accepted, the one read as 0 and the other as the empty list, when the
\* TeamAssignment model is built and when format_scenario_summary reads a
\* scenario.
C23_OptionalFieldsDefault ==
    /\ vcall.fn = "TeamAssignment" =>
           /\ ~vcall.out.exc
           /\ vcall.out.val.members = Get(vcall.args, "members", <<>>)
           /\ vcall.out.val.travel_time_from_previous
                  = Get(vcall.args, "travel_time_from_previous", 0)
    /\ (/\ vcall.fn = "format_scenario_summary"
        /\ Len(vcall.out) = 2
        /\ vcall.out[2].kind = "assignment") =>
           LET assignment == vcall.args["teams"][1][1]
           IN  /\ "members" \notin DOMAIN assignment =>
                      vcall.out[2].members = <<>>
               /\ "travel_time_from_previous" \notin DOMAIN assignment =>
                      vcall.out[2].travel_time = 0 /\ ~vcall.out[2].travel_line

\* C24: parse_reservations and parse_users return a list only when every data
\* row builds a valid object, and the list then has one object per row in
\* file order; when a row is invalid, a required column is missing or the
\* file is empty they raise ValueError and return nothing.
C24_AllOrNothing ==
    vcall.fn \in {"parse_reservations", "parse_users"} =>
        LET file  == vcall.args
            model == IF vcall.fn = "parse_reservations" THEN "Reservation"
                                                        ELSE "User"
            valid(row) == ~Build(model, row).exc
        IN  IF /\ file.read = "frame"
               /\ ~file.missing_columns
               /\ \A k \in 1..Len(file.rows) : valid(file.rows[k])
            THEN /\ ~vcall.out.exc
                 /\ Len(vcall.out.val) = Len(file.rows)
                 /\ \A k \in 1..Len(file.rows) :
                        vcall.out.val[k] = Build(model, file.rows[k]).val
            ELSE /\ vcall.out.exc
                 /\ vcall.out.type = "ValueError"
                 /\ vcall.out.val = None

\* C24 witness: a file of two rows, the first of which builds and the second
\* of which does not, was parsed and nothing was returned.
C24_Witness ==
    /\ vcall.fn = "parse_reservations"
    /\ vcall.args.read = "frame"
    /\ ~vcall.args.missing_columns
    /\ Len(vcall.args.rows) = 2
    /\ ~Reservation(vcall.args.rows[1]).exc
    /\ Reservation(vcall.args.rows[2]).exc
    /\ vcall.out.exc

\* The ordered pairs of different positions of a list of n, row by row.
OffDiagonalOrder(n) ==
    [k \in 1..(n * (n - 1)) |->
        LET row == ((k - 1) \div (n - 1)) + 1
            col == ((k - 1) % (n - 1)) + 1
        IN  <<row, IF col < row THEN col ELSE col + 1>>]

\* C25: get_travel_time_matrix takes the ordered pairs of positions one after
\* another, row by row: the calls of a pass are those of its own pair, and
\* when the callback has been invoked with done = d, the entries of exactly
\* the first d off-diagonal pairs are written.
C25_RowMajorOneAtATime ==
    LET order == OffDiagonalOrder(Len(addresses))
        key(p) == <<addresses[p[1]], addresses[p[2]]>>
    IN  /\ Len(visited) <= Len(order)
        /\ \A k \in 1..Len(visited) : visited[k] = order[k]
        /\ \A k \in 1..Len(calls) :
               /\ visited # <<>>
               /\ Range(calls[k].args) \subseteq Range(key(visited[Len(visited)]))
               /\ calls[k].fn = "get_travel_time" =>
                      calls[k].args = key(visited[Len(visited)])
        /\ \A d \in 1..Len(cbLog) :
               /\ cbLog[d][1] = d
               /\ d <= Len(visited)
        /\ (progress_callback # "none" /\ Distinct(addresses)) =>
               {p \in DOMAIN matrix : p[1] # p[2]}
                   = {key(order[k]) : k \in 1..Len(cbLog)}

\* C25 witness: the second pair of a list of two has just been asked for with
\* requests of its own, after the first, and the callback has been invoked
\* with done = 2.
C25_Witness ==
    /\ pc = "loop"
    /\ Distinct(addresses)
    /\ visited = <<<<1, 2>>, <<2, 1>>>>
    /\ Len(cbLog) = 2
    /\ cbLog[2][1] = 2
    /\ \E k \in 1..Len(calls) : calls[k].requests > 0

\* C27: when the geocoding of the origin or of the destination gives no
\* coordinate, get_travel_time sends no directions request and returns None.
C27_NoRouteWithoutCoordinates ==
    \A k \in 1..Len(calls) :
        (/\ calls[k].fn = "get_travel_time"
         /\ ~calls[k].hit
         /\ (calls[k].start_coords = None \/ calls[k].end_coords = None)) =>
            /\ calls[k].routes = 0
            /\ calls[k].response = "not_sent"
            /\ calls[k].duration = None
            /\ calls[k].out = Returns(None)

\* C27 witness: the origin was found and the destination was not, both after
\* a request; the call returned None with two requests sent in all.
C27_Witness ==
    \E k \in 1..Len(calls) :
        /\ calls[k].fn = "get_travel_time"
        /\ calls[k].start_coords # None
        /\ calls[k].end_coords = None
        /\ calls[k].requests = 2
        /\ calls[k].out = Returns(None)

\* C29: the two directions of a pair are resolved on their own and never made
\* equal: a pass of the loop writes the entry of its own pair and leaves
\* every other entry as it is, so that when get_travel_time(A, B) gave None
\* and get_travel_time(B, A) gave a value, (A, B) holds the estimate and
\* (B, A) the value.
C29_DirectionsIndependent ==
    /\ [](\A p \in DOMAIN returned :
             LET q == <<p[2], p[1]>>
             IN  (/\ p[1] # p[2]
                  /\ q \in DOMAIN returned
                  /\ returned[p] = None
                  /\ returned[q] # None) =>
                     /\ matrix[p] = _estimate_travel_time(p[1], p[2])
                     /\ matrix[q] = returned[q][1])
    /\ [][(pc = "loop" /\ i <= Len(addresses)) =>
             \A p \in DOMAIN matrix :
                 p # <<addresses[i], addresses[j]>> =>
                     p \in DOMAIN matrix' /\ matrix'[p] = matrix[p]]_vars

\* C29 witness: a matrix was returned in which (A, B) holds the estimate,
\* after a directions request that failed, and (B, A) the value of the
\* service, which is another one.
C29_Witness ==
    /\ pc = "returned"
    /\ Len(addresses) = 2
    /\ Distinct(addresses)
    /\ returned[<<addresses[1], addresses[2]>>] = None
    /\ returned[<<addresses[2], addresses[1]>>] # None
    /\ matrix[<<addresses[1], addresses[2]>>]
           # matrix[<<addresses[2], addresses[1]>>]

\* The attempts of the call that failed: the API raised, the answer could
\* not be read or parsed, or its scenario list is empty.
FailedAttempts ==
    {k \in 1..Len(agent.responses) :
        LET response == agent.responses[k]
        IN  \/ response.kind # "text"
            \/ _parse_scenarios(response.text).exc
            \/ _parse_scenarios(response.text).val = <<>>}

\* C26: generate_scenarios calls the API at most 3 times; it returns the
\* scenario list of the first attempt that gives a non-empty list, every
\* attempt before being a failed one; after a third failed attempt it raises
\* that attempt's exception; it never returns an empty list.
C26_AtMostThreeAttempts ==
    LET n == Len(agent.responses)
    IN  /\ n <= 3
        /\ pc = "attempt" => (agent.out = None /\ FailedAttempts = 1..n)
        /\ pc = "generated" =>
               /\ FailedAttempts = 1..(n - 1)
               /\ ~agent.out[1].exc
               /\ agent.out[1].val # <<>>
               /\ agent.out[1].val
                      = _parse_scenarios(agent.responses[n].text).val
        /\ pc = "generate_raised" =>
               /\ n = 3
               /\ FailedAttempts = 1..3
               /\ agent.out[1] = try_block(agent.responses[3])
               /\ agent.out[1].exc
        /\ pc \in {"generated", "generate_raised"} => agent.out # None

\* C26 witness: two attempts failed, one with an API error and one with an
\* empty scenario list, and the third attempt's list was returned.
C26_Witness ==
    /\ pc = "generated"
    /\ Len(agent.responses) = 3
    /\ agent.responses[1].kind = "api_error"
    /\ agent.responses[2].kind = "text"
    /\ _parse_scenarios(agent.responses[2].text) = Returns(<<>>)
    /\ agent.out = Some(Returns(<<"fast", "balanced">>))
    /\ agent.slept = <<2, 4>>

\* C28: a second get_travel_time_matrix call on the same client with the same
\* list of n distinct addresses, all n*(n-1) pairs fitting the table of
\* get_travel_time: no call of the second build sends a request, and the
\* matrix it returns equals that of the first, estimates included.
C28_SecondBuildFromCache ==
    (/\ rebuild.n = 2
     /\ Distinct(addresses)
     /\ Len(addresses) * (Len(addresses) - 1) <= RouteCacheSize) =>
        /\ \A k \in 1..Len(calls) :
               calls[k].requests = 0 /\ calls[k].response = "not_sent"
        /\ pc # "raised" \/ progress_callback = "raising"
        /\ pc = "returned" => matrix = rebuild.first[1]

\* C28 witness: the second build of two distinct addresses returned; in the
\* first, one direction had a value and the other none, so that the estimate
\* was written, and the second build has both from the table.
C28_Witness ==
    /\ rebuild.n = 2
    /\ pc = "returned"
    /\ Len(addresses) = 2
    /\ Distinct(addresses)
    /\ returned[<<addresses[1], addresses[2]>>] = None
    /\ returned[<<addresses[2], addresses[1]>>] # None
    /\ matrix = rebuild.first[1]

\* C30: the flag a click sets is reset before the matrix build and the
\* optimizer call start, so that a click starts at most one generation
\* attempt and a run without a new click starts none, whether the attempt
\* before succeeded, failed or was stopped.
C30_OneAttemptPerClick ==
    /\ [](pc \in {"app_build", "app_optimize"} =>
             ~session.should_generate_schedule)
    /\ [](session.attempts
             + (IF session.should_generate_schedule THEN 1 ELSE 0)
                 <= session.clicks)
    /\ [][session.attempts' > session.attempts =>
             /\ session.should_generate_schedule
             /\ ~session.should_generate_schedule'
             /\ session.attempts' = session.attempts + 1]_vars
    /\ [][(~session.should_generate_schedule
            /\ session.should_generate_schedule') =>
               session.event = "generate_click"]_vars

\* C30 witness: after one click the generation was started and failed in the
\* optimizer; a later run without a click has passed the flag check and is
\* at its end with still one attempt made.
C30_Witness ==
    /\ pc = "app_display"
    /\ session.event = "other"
    /\ session.clicks = 1
    /\ session.attempts = 1
    /\ session.generated_scenarios = None
    /\ ~session.should_generate_schedule

====
